---- MODULE Spec2Model ----
(***************************************************************************)
(* Job orchestration and progress broadcast of simple_video_downloader.     *)
(*                                                                          *)
(* Two stacks live in the repository and share no state:                    *)
(*   - the service stack: JobManager (app/services/job_manager.py) and      *)
(*     VideoDownloader (app/services/downloader.py);                        *)
(*   - the application module app/main.py with progress_store, job_queues,  *)
(*     ws_clients, _broadcast_loop and run_download_async.                  *)
(* Each stack has its own variables and its own next-state relation.        *)
(***************************************************************************)
EXTENDS Integers, Sequences, FiniteSets, TLC

(***************************************************************************)
(* Bounds of the model.                                                     *)
(***************************************************************************)
NJobs == 2
NStrategies == 2
MaxHooks == 2

\* settings.max_concurrent_downloads (MAX_CONCURRENT_DOWNLOADS in the environment)
max_concurrent_downloads == 1

JobIds == 1..NJobs
Strategies == 1..NStrategies

Terminal == {"finished", "error", "cancelled"}
Statuses == {"queued", "starting", "downloading", "postprocessing"} \cup Terminal

(***************************************************************************)
(* Exceptions and their messages.  str(e) of a failed strategy is the       *)
(* extractor's text: i names the strategy that raised it, ig says whether   *)
(* the text mentions Instagram / login required / rate-limit.  hint is set  *)
(* only by run_download_async, which appends an authentication hint.        *)
(***************************************************************************)
NoError == [kind |-> "none", i |-> 0, ig |-> FALSE, hint |-> FALSE]
StrategyError(i, ig) == [kind |-> "strategy", i |-> i, ig |-> ig, hint |-> FALSE]
FileTooLarge == [kind |-> "toolarge", i |-> 0, ig |-> FALSE, hint |-> FALSE]
MkdtempError == [kind |-> "mkdtemp", i |-> 0, ig |-> FALSE, hint |-> FALSE]
PostProcessError == [kind |-> "postprocess", i |-> 0, ig |-> FALSE, hint |-> FALSE]

(***************************************************************************)
(* Observers.  A WebSocket is fresh until it connects, then open; an open   *)
(* connection whose peer reads slowly is stalled (the transport's write     *)
(* buffer is over its high-water mark), and a lost connection is closed.    *)
(* await ws.send_json(data) on an open connection writes and returns; on a  *)
(* stalled one it writes and suspends until the buffer drains or the        *)
(* connection is lost; on a closed one it raises.                           *)
(***************************************************************************)
NObservers == 2
Observers == 1..NObservers

(***************************************************************************)
(* Requests.  A format string is kept as its length and the characters it   *)
(* contains; a client address is a number.                                  *)
(***************************************************************************)
NClients == 2
Clients == 1..NClients

\* validate_format: len(v) > 500
max_format_length == 500

\* Settings.rate_limit_per_minute (RATE_LIMIT_PER_MINUTE)
rate_limit_per_minute == 1

\* validate_format: the characters it refuses (the backtick, the line feed and the
\* carriage return by their names)
Forbidden == {";", "&", "|", "backtick", "$", "(", ")", "LF", "CR"}

NoFmt == [len |-> 0, chars |-> {}]

\* "137+140"
GoodFmt == [len |-> 7, chars |-> {"7", "+"}]

Formats ==
    {NoFmt} \cup
    {[len |-> n, chars |-> cs] :
        n \in {7, max_format_length, max_format_length + 1},
        cs \in {{"7", "+"}, {"7", ";"}, {"7", "$"}, {"LF"}}}

\* DownloadRequest.validate_format: TRUE when it returns v, FALSE when it raises ValueError
validate_format(v) ==
    /\ ~(v.len = 0 \/ v.len > max_format_length)
    /\ ~(\E char \in Forbidden : char \in v.chars)

RECURSIVE SortedSeq(_)
\* The order in which a broadcast walks a copy of the observer set
SortedSeq(S) ==
    IF S = {} THEN << >>
    ELSE LET m == CHOOSE x \in S : \A y \in S : x <= y
         IN <<m>> \o SortedSeq(S \ {m})

(***************************************************************************)
(* The service stack.                                                       *)
(***************************************************************************)
VARIABLES
    jobs,        \* JobManager.jobs: job id -> JobStatus
    queues,      \* JobManager.queues: the ids that own an asyncio.Queue
    websockets,  \* JobManager.websockets: job id -> set of WebSocket
    semaphore,   \* VideoDownloader.semaphore: permits left
    pc,          \* the task running VideoDownloader.download(job): where it is
    thr,         \* the executor thread running _download for the job
    hookq,       \* update_job coroutines the thread's hooks handed to the loop, oldest first
    nseq,        \* per job: how many snapshots update_job has produced
    bcasts,      \* update_job calls suspended inside broadcast()
    waiting,     \* per WebSocket: the suspended sends, oldest first
    conn,        \* per WebSocket: fresh, open, stalled or closed
    recv         \* per WebSocket: what was sent to it, in order

VARIABLES
    disk,        \* per job: its scratch directory: "none", "dir" (no output file yet),
                 \* "file" (the output file), "both" (and the remuxed copy), "temp" (the copy only)
    expired,     \* the ids whose created_at is more than the TTL ago
    reaped,      \* the ids of the cycles of cleanup_old_jobs that are over
    cycle        \* the cycle of cleanup_old_jobs that is under way

fsVars == <<disk, expired, reaped, cycle>>

jobVars == <<jobs, nseq, websockets, bcasts, waiting, recv>>
svcVars == <<jobs, queues, websockets, semaphore, pc, thr, hookq, nseq, bcasts, waiting, conn, recv,
             disk, expired, reaped, cycle>>

\* No cycle of cleanup_old_jobs is under way.  all: its expired_jobs; todo: those not
\* yet removed, the first being the one remove_job is at; closing: the copy of that
\* job's sockets while remove_job awaits their close(); failed: the ids whose file
\* could not be deleted
IdleCycle == [phase |-> "idle", all |-> {}, todo |-> << >>, closing |-> {}, failed |-> {}]

\* JobStatus(job_id=..., status="queued"): every optional field is None
NewJob == [status |-> "queued", filepath |-> "none", filename |-> "none", error |-> NoError]

\* proc: where the thread is in a post-processing function; tool: how ffmpeg ended
IdleThread == [state |-> "idle", strat |-> 0, emitted |-> 0, last_error |-> NoError,
               proc |-> "idle", tool |-> "none"]

\* How a run of ffmpeg ends: exit status 0, another exit status, or (where the call
\* has a timeout) killed after the timeout
ToolOutcomes == {"ok", "failed", "timeout"}

\* JobManager.create_job
create_job(j) ==
    /\ jobs' = [k \in DOMAIN jobs \cup {j} |-> IF k = j THEN NewJob ELSE jobs[k]]
    /\ queues' = queues \cup {j}

\* The loop of update_job: setattr for every keyword JobStatus has
ApplyFields(job, kw) ==
    [f \in DOMAIN job |-> IF f \in DOMAIN kw THEN kw[f] ELSE job[f]]

\* job.dict() as broadcast: the record at the time of the update (seq stands for updated_at)
Snapshot(job, seq) ==
    [seq |-> seq, status |-> job.status, filepath |-> job.filepath, error |-> job.error]

\* JobManager.remove_websocket
remove_websocket(ws, j, w) ==
    IF j \notin DOMAIN ws THEN ws
    ELSE IF ws[j] \ {w} = {}
         THEN [k \in DOMAIN ws \ {j} |-> ws[k]]
         ELSE [ws EXCEPT ![j] = @ \ {w}]

RECURSIVE RemoveDead(_, _, _)
\* The tail of JobManager.broadcast: remove_websocket for every dead socket
RemoveDead(ws, j, dead) ==
    IF dead = {} THEN ws
    ELSE LET w == CHOOSE x \in dead : TRUE
         IN RemoveDead(remove_websocket(ws, j, w), j, dead \ {w})

RECURSIVE RunBroadcast(_, _, _)
\* The loop of JobManager.broadcast from where it stands until it suspends or ends:
\* b.todo is what is left of the copied set, b.dead the dead_sockets so far
RunBroadcast(b, rc, cn) ==
    IF b.todo = << >> THEN [b |-> b, recv |-> rc]
    ELSE LET w == Head(b.todo) IN
         IF cn[w] = "stalled"
         THEN [b |-> b, recv |-> [rc EXCEPT ![w] = Append(@, b.snap)]]
         ELSE IF cn[w] = "open"
         THEN RunBroadcast([b EXCEPT !.todo = Tail(@)],
                           [rc EXCEPT ![w] = Append(@, b.snap)], cn)
         ELSE RunBroadcast([b EXCEPT !.todo = Tail(@), !.dead = @ \cup {w}], rc, cn)

\* A broadcast that ran as far as r: either it is over (dead sockets removed) or it
\* is left suspended on the socket at the head of its todo
SettleBroadcast(r, others) ==
    /\ recv' = r.recv
    /\ IF r.b.todo = << >>
       THEN /\ websockets' = RemoveDead(websockets, r.b.job, r.b.dead)
            /\ bcasts' = others
            /\ UNCHANGED waiting
       ELSE /\ bcasts' = others \cup {r.b}
            /\ waiting' = [waiting EXCEPT ![Head(r.b.todo)] = Append(@, <<r.b.job, r.b.snap.seq>>)]
            /\ UNCHANGED websockets

\* JobManager.broadcast: walk a copy of the job's observer set
broadcast(j, snap, owner) ==
    LET b == [job |-> j, snap |-> snap, owner |-> owner, dead |-> {},
              todo |-> IF j \in DOMAIN websockets THEN SortedSeq(websockets[j]) ELSE << >>]
    IN SettleBroadcast(RunBroadcast(b, recv, conn), bcasts)

\* update_job without the test of line 73: an unknown id gets a record
update_job_Upsert(j, kw, owner) ==
    LET job == ApplyFields(IF j \in DOMAIN jobs THEN jobs[j] ELSE NewJob, kw)
    IN /\ jobs' = [k \in DOMAIN jobs \cup {j} |-> IF k = j THEN job ELSE jobs[k]]
       /\ nseq' = [nseq EXCEPT ![j] = @ + 1]
       /\ broadcast(j, Snapshot(job, nseq[j] + 1), owner)

\* JobManager.update_job: no-op for an unknown id; else set the fields and broadcast
update_job(j, kw, owner) ==
    IF j \notin DOMAIN jobs
    THEN UNCHANGED jobVars
    ELSE /\ jobs' = [jobs EXCEPT ![j] = ApplyFields(jobs[j], kw)]
         /\ nseq' = [nseq EXCEPT ![j] = @ + 1]
         /\ broadcast(j, Snapshot(ApplyFields(jobs[j], kw), nseq[j] + 1), owner)

\* The task of `job` is inside `await job_manager.update_job(...)`
Awaiting(j) == \E b \in bcasts : b.job = j /\ b.owner = "runner"

InitSvc ==
    /\ jobs = << >>
    /\ queues = {}
    /\ websockets = << >>
    /\ semaphore = max_concurrent_downloads
    /\ pc = [j \in JobIds |-> "idle"]
    /\ thr = [j \in JobIds |-> IdleThread]
    /\ hookq = [j \in JobIds |-> << >>]
    /\ nseq = [j \in JobIds |-> 0]
    /\ bcasts = {}
    /\ waiting = [w \in Observers |-> << >>]
    /\ conn = [w \in Observers |-> "fresh"]
    /\ recv = [w \in Observers |-> << >>]
    /\ disk = [j \in JobIds |-> "none"]
    /\ expired = {}
    /\ reaped = {}
    /\ cycle = IdleCycle

(***************************************************************************)
(* The application module app/main.py.                                      *)
(*                                                                          *)
(* A dict of progress_store is a record of the keys the model keeps, an     *)
(* absent key being "none" / NoError.  An event handed to _enqueue_event is *)
(* a reference to a dict: `live` says that it is the very dict              *)
(* progress_store holds for the job, so that a later in-place update of     *)
(* that dict changes the event too; val is the dict's present content.      *)
(***************************************************************************)
VARIABLES
    progress_store,     \* job id -> dict
    job_queues,         \* job id -> asyncio.Queue, as the sequence of its events
    ws_clients,         \* job id -> set of WebSocket
    broadcaster_tasks,  \* the ids that have an entry in broadcaster_tasks
    mpc,                \* the task running run_download_async(job): where it is
    mthr,               \* the thread of asyncio.to_thread(_try_download, copt)
    calls,              \* per job: q.put_nowait callbacks given to call_soon_threadsafe, oldest first
    bl,                 \* per job: the locals of _broadcast_loop
    wsk,                \* per WebSocket: the handler ws_progress and its connection
    wrecv               \* per WebSocket: what was sent to it, in order

VARIABLES
    mfmt,               \* per job: the fmt its run_download_async was started with
    admitted,           \* per client address: the POST /download requests admitted this minute
    resp,               \* per job: the last response of GET /fetch/{job}
    mdisk               \* per job: its tmpdir: "none", "dir" or "file" (the output file)

reqVars == <<mfmt, admitted, resp, mdisk>>

mainVars == <<progress_store, job_queues, ws_clients, broadcaster_tasks, mpc, mthr,
              calls, bl, wsk, wrecv, mfmt, admitted, resp, mdisk>>

NoDict == [status |-> "none", filepath |-> "none", filename |-> "none", error |-> NoError]

Dict(status) == [NoDict EXCEPT !.status = status]

IdleLoop == [pc |-> "none", payload |-> [val |-> NoDict, live |-> FALSE],
             todo |-> << >>, dead |-> {}]

FreshSocket == [state |-> "fresh", job |-> 0, at |-> "none", cur |-> NoDict]

\* No GET /fetch/{job} answered yet
NoResponse == [kind |-> "none", at |-> "none", file |-> FALSE]

InitMain ==
    /\ progress_store = << >>
    /\ job_queues = << >>
    /\ ws_clients = << >>
    /\ broadcaster_tasks = {}
    /\ mpc = [j \in JobIds |-> "idle"]
    /\ mthr = [j \in JobIds |-> IdleThread]
    /\ calls = [j \in JobIds |-> << >>]
    /\ bl = [j \in JobIds |-> IdleLoop]
    /\ wsk = [w \in Observers |-> FreshSocket]
    /\ wrecv = [w \in Observers |-> << >>]
    /\ mfmt = [j \in JobIds |-> NoFmt]
    /\ admitted = [a \in Clients |-> 0]
    /\ resp = [j \in JobIds |-> NoResponse]
    /\ mdisk = [j \in JobIds |-> "none"]

\* submit: create the Job Record and schedule downloader.download(job) as a task
Submit(j) ==
    /\ pc[j] = "idle"
    /\ j \notin DOMAIN jobs
    /\ create_job(j)
    /\ pc' = [pc EXCEPT ![j] = "acquire"]
    /\ UNCHANGED <<websockets, semaphore, thr, hookq, nseq, bcasts, waiting, conn, recv, mainVars, fsVars>>

\* The runner starts without waiting for a permit
Acquire_NoWait(j, made) ==
    /\ pc[j] = "acquire"
    /\ semaphore' = semaphore - 1
    /\ IF made
       THEN /\ update_job(j, [status |-> "starting"], "runner")
            /\ pc' = [pc EXCEPT ![j] = "started"]
       ELSE /\ update_job(j, [status |-> "error", error |-> MkdtempError], "runner")
            /\ pc' = [pc EXCEPT ![j] = "failing"]
    /\ disk' = [disk EXCEPT ![j] = IF made THEN "dir" ELSE @]
    /\ UNCHANGED <<queues, thr, hookq, conn, mainVars, expired, reaped, cycle>>

\* VideoDownloader.download: `async with self.semaphore`, then the head of
\* _download_internal up to its first await: mkdtemp, update_job(status="starting").
\* made = FALSE: mkdtemp raised, which the except clause reports (temp_dir is None).
Acquire(j, made) ==
    /\ pc[j] = "acquire"
    /\ semaphore > 0
    /\ semaphore' = semaphore - 1
    /\ IF made
       THEN /\ update_job(j, [status |-> "starting"], "runner")
            /\ pc' = [pc EXCEPT ![j] = "started"]
       ELSE /\ update_job(j, [status |-> "error", error |-> MkdtempError], "runner")
            /\ pc' = [pc EXCEPT ![j] = "failing"]
    /\ disk' = [disk EXCEPT ![j] = IF made THEN "dir" ELSE @]
    /\ UNCHANGED <<queues, thr, hookq, conn, mainVars, expired, reaped, cycle>>

\* loop.run_in_executor(None, _download): the thread starts with the first strategy
LaunchThread(j) ==
    /\ pc[j] = "started"
    /\ ~Awaiting(j)
    /\ pc' = [pc EXCEPT ![j] = "thread"]
    /\ thr' = [thr EXCEPT ![j] = [IdleThread EXCEPT !.state = "running", !.strat = 1]]
    /\ UNCHANGED <<jobVars, queues, semaphore, hookq, conn, mainVars, fsVars>>

\* The hook returned by _create_progress_hook, called by the extractor in the thread:
\* run_coroutine_threadsafe(update_job(...), loop) for d["status"] = kind
ProgressHook(j, kind) ==
    /\ thr[j].state = "running"
    /\ thr[j].emitted < MaxHooks
    /\ thr' = [thr EXCEPT ![j].emitted = @ + 1]
    /\ hookq' = [hookq EXCEPT ![j] = Append(@, kind)]
    /\ UNCHANGED <<jobVars, queues, semaphore, pc, conn, mainVars, fsVars>>

\* The keywords the hook passes to update_job (of the job's fields, the model keeps
\* status, filepath, filename and error)
HookFields(kind) ==
    IF kind = "downloading"
    THEN [status |-> "downloading"]
    ELSE [status |-> "postprocessing"]

\* The loop runs the oldest coroutine a hook scheduled: its update_job up to the first await
RunHook(j) ==
    /\ hookq[j] # << >>
    /\ update_job(j, HookFields(Head(hookq[j])), "hook")
    /\ hookq' = [hookq EXCEPT ![j] = Tail(@)]
    /\ UNCHANGED <<queues, semaphore, pc, thr, conn, mainVars, fsVars>>

\* The thread keeps the first failure instead of the last
StrategyFails_KeepsFirst(j) ==
    /\ thr[j].state = "running"
    /\ thr' = [thr EXCEPT ![j] =
                 [@ EXCEPT !.last_error = IF @ = NoError
                                          THEN StrategyError(thr[j].strat, FALSE) ELSE @,
                           !.strat = IF thr[j].strat < NStrategies THEN @ + 1 ELSE @,
                           !.state = IF thr[j].strat < NStrategies THEN "running" ELSE "raised"]]
    /\ UNCHANGED <<jobVars, queues, semaphore, pc, hookq, conn, mainVars, fsVars>>

\* _download gives up at the first strategy that fails
StrategyFails_GivesUp(j) ==
    /\ thr[j].state = "running"
    /\ thr' = [thr EXCEPT ![j] =
                 [@ EXCEPT !.last_error = StrategyError(thr[j].strat, FALSE),
                           !.state = "raised"]]
    /\ UNCHANGED <<jobVars, queues, semaphore, pc, hookq, conn, mainVars, fsVars>>

\* _download: extract_info raised under the current strategy; try the next, or
\* raise last_error after the last
StrategyFails(j) ==
    /\ thr[j].state = "running"
    /\ thr' = [thr EXCEPT ![j] =
                 [@ EXCEPT !.last_error = StrategyError(thr[j].strat, FALSE),
                           !.strat = IF thr[j].strat < NStrategies THEN @ + 1 ELSE @,
                           !.state = IF thr[j].strat < NStrategies THEN "running" ELSE "raised"]]
    /\ UNCHANGED <<jobVars, queues, semaphore, pc, hookq, conn, mainVars, fsVars>>

\* _download: extract_info and _resolve_output_path returned under the current strategy
StrategySucceeds(j) ==
    /\ thr[j].state = "running"
    /\ thr' = [thr EXCEPT ![j].state = "returned"]
    /\ disk' = [disk EXCEPT ![j] = "file"]
    /\ UNCHANGED <<jobVars, queues, semaphore, pc, hookq, conn, mainVars, expired, reaped, cycle>>

\* The runner resumes as soon as the thread is over, ahead of the callbacks it scheduled
ThreadOver_Unordered(j) == thr[j].state \in {"returned", "raised"}

\* The executor's future resolves after every callback the thread scheduled before it
ThreadOver(j) == thr[j].state \in {"returned", "raised"} /\ hookq[j] = << >>

\* The runner records the path as soon as the extractor has returned it
AfterThread_EarlyPath(j) ==
    /\ pc[j] = "thread"
    /\ ThreadOver(j)
    /\ IF thr[j].state = "returned"
       THEN /\ update_job(j, [status |-> "postprocessing", filepath |-> "path",
                              filename |-> "name"], "runner")
            /\ pc' = [pc EXCEPT ![j] = "post"]
       ELSE /\ update_job(j, [status |-> "error", error |-> thr[j].last_error], "runner")
            /\ pc' = [pc EXCEPT ![j] = "failing"]
    /\ disk' = [disk EXCEPT ![j] = IF thr[j].state = "returned" THEN @ ELSE "none"]
    /\ UNCHANGED <<queues, semaphore, thr, hookq, conn, mainVars, expired, reaped, cycle>>

\* _download_internal after `await loop.run_in_executor(None, _download)`:
\* update_job(status="postprocessing"), or the except clause: rmtree(temp_dir), then
\* update_job(status="error", error=str(last_error))
AfterThread(j) ==
    /\ pc[j] = "thread"
    /\ ThreadOver(j)
    /\ IF thr[j].state = "returned"
       THEN /\ update_job(j, [status |-> "postprocessing"], "runner")
            /\ pc' = [pc EXCEPT ![j] = "post"]
       ELSE /\ update_job(j, [status |-> "error", error |-> thr[j].last_error], "runner")
            /\ pc' = [pc EXCEPT ![j] = "failing"]
    /\ disk' = [disk EXCEPT ![j] = IF thr[j].state = "returned" THEN @ ELSE "none"]
    /\ UNCHANGED <<queues, semaphore, thr, hookq, conn, mainVars, expired, reaped, cycle>>

\* _ensure_compatible_format with ffmpeg present and an .mp4: run_in_executor(_process)
EnterProcess(j) ==
    /\ pc[j] = "post"
    /\ ~Awaiting(j)
    /\ pc' = [pc EXCEPT ![j] = "compat"]
    /\ thr' = [thr EXCEPT ![j].proc = "tool"]
    /\ UNCHANGED <<jobVars, queues, semaphore, hookq, conn, mainVars, fsVars>>

\* _process: subprocess.run(ffmpeg ... temp_file, timeout=300) is over.
\* ok: exit status 0 and temp_file written.  failed: another exit status; the if is
\* skipped, nothing is raised, and what ffmpeg wrote of temp_file stays.  timeout:
\* TimeoutExpired, and the except clause unlinks temp_file.
ToolEnds(j, out) ==
    /\ thr[j].proc = "tool"
    /\ thr' = [thr EXCEPT ![j].proc = IF out = "ok" THEN "written" ELSE "over"]
    /\ disk' = [disk EXCEPT ![j] = IF out = "timeout" THEN @ ELSE "both"]
    /\ UNCHANGED <<jobVars, queues, semaphore, pc, hookq, conn, mainVars, expired, reaped, cycle>>

\* _process: filepath.unlink()
Unlink(j) ==
    /\ thr[j].proc = "written"
    /\ thr' = [thr EXCEPT ![j].proc = "unlinked"]
    /\ disk' = [disk EXCEPT ![j] = "temp"]
    /\ UNCHANGED <<jobVars, queues, semaphore, pc, hookq, conn, mainVars, expired, reaped, cycle>>

\* _process: temp_file.rename(filepath)
Rename(j) ==
    /\ thr[j].proc = "unlinked"
    /\ thr' = [thr EXCEPT ![j].proc = "over"]
    /\ disk' = [disk EXCEPT ![j] = "file"]
    /\ UNCHANGED <<jobVars, queues, semaphore, pc, hookq, conn, mainVars, expired, reaped, cycle>>

\* The result is recorded before the size check, so an oversized file keeps it
SizeCheck_AfterResult(j, large) ==
    /\ pc[j] \in {"post", "compat"}
    /\ pc[j] = "compat" => thr[j].proc = "over"
    /\ ~Awaiting(j)
    /\ IF large
       THEN /\ update_job(j, [status |-> "error", error |-> FileTooLarge,
                              filepath |-> "path", filename |-> "name"], "runner")
            /\ pc' = [pc EXCEPT ![j] = "failing"]
       ELSE /\ update_job(j, [status |-> "finished", filepath |-> "path", filename |-> "name"],
                         "runner")
            /\ pc' = [pc EXCEPT ![j] = "finishing"]
    /\ disk' = [disk EXCEPT ![j] = IF large THEN "none" ELSE @]
    /\ UNCHANGED <<queues, semaphore, thr, hookq, conn, mainVars, expired, reaped, cycle>>

\* The except clause without its rmtree(temp_dir)
SizeCheck_KeepsFile(j, large) ==
    /\ pc[j] \in {"post", "compat"}
    /\ pc[j] = "compat" => thr[j].proc = "over"
    /\ ~Awaiting(j)
    /\ IF large
       THEN /\ update_job(j, [status |-> "error", error |-> FileTooLarge], "runner")
            /\ pc' = [pc EXCEPT ![j] = "failing"]
       ELSE /\ update_job(j, [status |-> "finished", filepath |-> "path", filename |-> "name"],
                         "runner")
            /\ pc' = [pc EXCEPT ![j] = "finishing"]
    /\ UNCHANGED <<queues, semaphore, thr, hookq, conn, mainVars, fsVars>>

\* The size check and what follows it: update_job(status="finished", filepath, filename,
\* percent) or `raise Exception("File too large")` into the except clause.
\* From "post": _ensure_compatible_format returned at once (no ffmpeg, or not an .mp4).
SizeCheck(j, large) ==
    /\ pc[j] \in {"post", "compat"}
    /\ pc[j] = "compat" => thr[j].proc = "over"
    /\ ~Awaiting(j)
    /\ IF large
       THEN /\ update_job(j, [status |-> "error", error |-> FileTooLarge], "runner")
            /\ pc' = [pc EXCEPT ![j] = "failing"]
       ELSE /\ update_job(j, [status |-> "finished", filepath |-> "path", filename |-> "name"],
                         "runner")
            /\ pc' = [pc EXCEPT ![j] = "finishing"]
    /\ disk' = [disk EXCEPT ![j] = IF large THEN "none" ELSE @]
    /\ UNCHANGED <<queues, semaphore, thr, hookq, conn, mainVars, expired, reaped, cycle>>

\* The end of `async with self.semaphore`: by return, or by the `raise` of the except clause
Exit(j) ==
    /\ pc[j] \in {"finishing", "failing"}
    /\ ~Awaiting(j)
    /\ semaphore' = semaphore + 1
    /\ pc' = [pc EXCEPT ![j] = "done"]
    /\ thr' = [thr EXCEPT ![j] = IdleThread]
    /\ UNCHANGED <<jobVars, queues, hookq, conn, mainVars, fsVars>>

RunnerStep(j) ==
    \/ Submit(j)
    \/ \E made \in BOOLEAN : Acquire(j, made)
    \/ LaunchThread(j)
    \/ AfterThread(j)
    \/ EnterProcess(j)
    \/ \E large \in BOOLEAN : SizeCheck(j, large)
    \/ Exit(j)

\* The steps of _process in its executor thread
ProcessStep(j) ==
    \/ \E out \in ToolOutcomes : ToolEnds(j, out)
    \/ Unlink(j)
    \/ Rename(j)

ThreadStep(j) ==
    \/ \E kind \in {"downloading", "finished"} : ProgressHook(j, kind)
    \/ StrategyFails(j)
    \/ StrategySucceeds(j)
    \/ RunHook(j)
    \/ ProcessStep(j)

\* The WebSocket route of the service stack registers a connection: JobManager.add_websocket
AddWebsocket(w, j) ==
    /\ conn[w] = "fresh"
    /\ conn' = [conn EXCEPT ![w] = "open"]
    /\ websockets' = [k \in DOMAIN websockets \cup {j} |->
                        IF k = j
                        THEN (IF j \in DOMAIN websockets THEN websockets[j] ELSE {}) \cup {w}
                        ELSE websockets[k]]
    /\ UNCHANGED <<jobs, queues, semaphore, pc, thr, hookq, nseq, bcasts, waiting, recv, mainVars, fsVars>>

\* The peer of a connection stops reading, reads again, or goes away
PeerStep(w) ==
    /\ \/ conn[w] = "open" /\ conn' = [conn EXCEPT ![w] = "stalled"]
       \/ conn[w] = "stalled" /\ conn' = [conn EXCEPT ![w] = "open"]
       \/ conn[w] \in {"open", "stalled"} /\ conn' = [conn EXCEPT ![w] = "closed"]
    /\ UNCHANGED <<jobVars, queues, semaphore, pc, thr, hookq, mainVars, fsVars>>

\* A send suspended in JobManager.broadcast resumes, oldest first on its socket: it
\* returned (the buffer drained) or raised (the connection is lost, so the bare except
\* puts the socket in dead_sockets), and the loop goes on with the rest of the copy
ResumeBroadcast(b) ==
    LET w == Head(b.todo)
        rest == [b EXCEPT !.todo = Tail(@),
                          !.dead = IF conn[w] = "closed" THEN @ \cup {w} ELSE @]
        r == RunBroadcast(rest, recv, conn)
    IN /\ conn[w] # "stalled"
       /\ Head(waiting[w]) = <<b.job, b.snap.seq>>
       /\ recv' = r.recv
       /\ IF r.b.todo = << >>
          THEN /\ websockets' = RemoveDead(websockets, b.job, r.b.dead)
               /\ bcasts' = bcasts \ {b}
               /\ waiting' = [waiting EXCEPT ![w] = Tail(@)]
          ELSE /\ bcasts' = (bcasts \ {b}) \cup {r.b}
               /\ waiting' = [x \in Observers |->
                                IF x = w /\ x = Head(r.b.todo)
                                THEN Append(Tail(waiting[x]), <<b.job, b.snap.seq>>)
                                ELSE IF x = w THEN Tail(waiting[x])
                                ELSE IF x = Head(r.b.todo)
                                THEN Append(waiting[x], <<b.job, b.snap.seq>>)
                                ELSE waiting[x]]
               /\ UNCHANGED websockets
       /\ UNCHANGED <<jobs, nseq, queues, semaphore, pc, thr, hookq, conn, mainVars, fsVars>>

ObserverStep(J) ==
    \/ \E w \in Observers, j \in J : AddWebsocket(w, j)
    \/ \E w \in Observers : PeerStep(w)
    \/ \E b \in bcasts : ResumeBroadcast(b)

\* A cancelled runner leaves with its permit
Cancel_KeepsPermit(j) ==
    /\ pc[j] \in {"acquire", "thread", "compat"}
    /\ pc' = [pc EXCEPT ![j] = "cancelled"]
    /\ UNCHANGED <<jobVars, queues, semaphore, thr, hookq, conn, mainVars, fsVars>>

\* task.cancel() on the task running VideoDownloader.download: CancelledError is raised
\* at the await the task is suspended in.  It is no Exception, so the except clause of
\* _download_internal is skipped; `async with` releases the permit if it was taken.
\* The executor thread is not interrupted.
Cancel(j) ==
    /\ \/ /\ pc[j] = "acquire"
          /\ UNCHANGED semaphore
       \/ /\ pc[j] \in {"thread", "compat"}
          /\ semaphore' = semaphore + 1
    /\ pc' = [pc EXCEPT ![j] = "cancelled"]
    /\ UNCHANGED <<jobVars, queues, thr, hookq, conn, mainVars, fsVars>>

\* The thread of a cancelled task runs to its end; nobody awaits its result
Abandoned(j) ==
    /\ pc[j] = "cancelled"
    /\ thr[j].state \in {"returned", "raised"}
    /\ thr[j].proc \in {"idle", "over"}
    /\ thr' = [thr EXCEPT ![j] = IdleThread]
    /\ UNCHANGED <<jobVars, queues, semaphore, pc, hookq, conn, mainVars, fsVars>>

\* Time passes: the job's created_at is now more than the TTL ago
Expire(j) ==
    /\ j \in DOMAIN jobs
    /\ j \notin expired
    /\ expired' = expired \cup {j}
    /\ UNCHANGED <<jobVars, queues, semaphore, pc, thr, hookq, conn, mainVars, disk, reaped, cycle>>

\* cleanup_old_jobs up to its first remove_job: the list of the ids older than the
\* TTL, in the order of self.jobs
cleanup_old_jobs ==
    LET expired_jobs == {j \in DOMAIN jobs : j \in expired}
    IN /\ cycle.phase = "idle"
       /\ expired_jobs # {}
       /\ cycle' = [IdleCycle EXCEPT !.phase = "remove", !.all = expired_jobs,
                                     !.todo = SortedSeq(expired_jobs)]
       /\ UNCHANGED <<jobVars, queues, semaphore, pc, thr, hookq, conn, mainVars,
                      disk, expired, reaped>>

\* The end of remove_job for the first id of the list: on to the next id, or the
\* cycle is over
NextRemoval(failed) ==
    IF Len(cycle.todo) > 1
    THEN /\ cycle' = [cycle EXCEPT !.phase = "remove", !.todo = Tail(@), !.closing = {},
                                   !.failed = failed]
         /\ UNCHANGED reaped
    ELSE /\ cycle' = [IdleCycle EXCEPT !.all = cycle.all, !.failed = failed]
         /\ reaped' = reaped \cup cycle.all

\* The first failure of a deletion ends the cycle
remove_job_Raises(fail) ==
    LET j == Head(cycle.todo)
        has == j \in DOMAIN jobs /\ jobs[j].filepath # "none" /\ disk[j] \in {"file", "both"}
        S == IF j \in DOMAIN websockets THEN websockets[j] ELSE {}
    IN /\ cycle.phase = "remove"
       /\ fail => has
       /\ IF fail
          THEN /\ cycle' = [IdleCycle EXCEPT !.all = cycle.all, !.failed = cycle.failed \cup {j}]
               /\ reaped' = reaped \cup cycle.all
               /\ UNCHANGED <<disk, jobs, queues, websockets>>
          ELSE /\ disk' = [disk EXCEPT ![j] = IF has THEN "none" ELSE @]
               /\ jobs' = [k \in DOMAIN jobs \ {j} |-> jobs[k]]
               /\ queues' = queues \ {j}
               /\ IF j \in DOMAIN jobs /\ S # {}
                  THEN /\ cycle' = [cycle EXCEPT !.phase = "close", !.closing = S]
                       /\ UNCHANGED <<websockets, reaped>>
                  ELSE /\ websockets' = IF j \in DOMAIN jobs
                                        THEN [k \in DOMAIN websockets \ {j} |-> websockets[k]]
                                        ELSE websockets
                       /\ NextRemoval(cycle.failed)
       /\ UNCHANGED <<semaphore, pc, thr, hookq, nseq, bcasts, waiting, recv, conn, expired,
                      mainVars>>

\* JobManager.remove_job for the first id of the list, up to its first `await
\* ws.close()`: nothing at all for an id that has no record; else delete the file the
\* record names (with its directory: it is under settings.temp_dir), drop the record
\* and the queue, and copy the job's sockets.  fail: the deletion raises, and the bare
\* except (or ignore_errors) swallows it.
remove_job(fail) ==
    LET j == Head(cycle.todo)
        has == j \in DOMAIN jobs /\ jobs[j].filepath # "none" /\ disk[j] \in {"file", "both"}
        S == IF j \in DOMAIN websockets THEN websockets[j] ELSE {}
        failed == IF fail THEN cycle.failed \cup {j} ELSE cycle.failed
    IN /\ cycle.phase = "remove"
       /\ fail => has
       /\ disk' = [disk EXCEPT ![j] = IF has /\ ~fail THEN "none" ELSE @]
       /\ jobs' = [k \in DOMAIN jobs \ {j} |-> jobs[k]]
       /\ queues' = queues \ {j}
       /\ IF j \in DOMAIN jobs /\ S # {}
          THEN /\ cycle' = [cycle EXCEPT !.phase = "close", !.closing = S, !.failed = failed]
               /\ UNCHANGED <<websockets, reaped>>
          ELSE /\ websockets' = IF j \in DOMAIN jobs
                                THEN [k \in DOMAIN websockets \ {j} |-> websockets[k]]
                                ELSE websockets
               /\ NextRemoval(failed)
       /\ UNCHANGED <<semaphore, pc, thr, hookq, nseq, bcasts, waiting, recv, conn, expired,
                      mainVars>>

\* remove_job after its `await ws.close()` for each socket of the copy (a close that
\* raises is swallowed by the bare except): self.websockets.pop(job_id)
remove_job_closed ==
    LET j == Head(cycle.todo)
    IN /\ cycle.phase = "close"
       /\ conn' = [w \in Observers |-> IF w \in cycle.closing THEN "closed" ELSE conn[w]]
       /\ websockets' = [k \in DOMAIN websockets \ {j} |-> websockets[k]]
       /\ NextRemoval(cycle.failed)
       /\ UNCHANGED <<jobs, queues, semaphore, pc, thr, hookq, nseq, bcasts, waiting, recv,
                      expired, disk, mainVars>>

NextSvc ==
    \E j \in JobIds : RunnerStep(j) \/ ThreadStep(j)

\* The service stack with observers, one job
NextWs ==
    \/ \E j \in {1} : RunnerStep(j) \/ ThreadStep(j)
    \/ ObserverStep({1})

\* The service stack with cancellation of the download tasks (an extractor that
\* reports no progress)
NextCancel ==
    \E j \in JobIds :
        RunnerStep(j) \/ StrategyFails(j) \/ StrategySucceeds(j) \/ ProcessStep(j)
            \/ Cancel(j) \/ Abandoned(j)

\* The service stack with the expiry reaper and two jobs
NextReap ==
    \/ \E j \in {1, 2} : RunnerStep(j) \/ ThreadStep(j) \/ Expire(j)
    \/ cleanup_old_jobs
    \/ remove_job(FALSE)

\* The service stack with the expiry reaper, two observers of job 1, and deletions that
\* may fail (downloads that succeed, an extractor that reports no progress)
NextEvict ==
    \/ \E j \in {1, 2} :
          \/ Submit(j) \/ Acquire(j, TRUE) \/ LaunchThread(j) \/ StrategySucceeds(j)
          \/ AfterThread(j) \/ EnterProcess(j) \/ ToolEnds(j, "ok") \/ Unlink(j) \/ Rename(j)
          \/ SizeCheck(j, FALSE) \/ Exit(j) \/ Expire(j)
    \/ cleanup_old_jobs
    \/ \E fail \in BOOLEAN : remove_job(fail)
    \/ remove_job_closed
    \/ \E w \in {1, 2} : AddWebsocket(w, 1) \/ PeerStep(w)
    \/ \E b \in bcasts : ResumeBroadcast(b)

(***************************************************************************)
(* The operations of app/main.py.                                           *)
(***************************************************************************)
\* d.get(k, default)
Get(d, k, default) == IF k \in DOMAIN d THEN d[k] ELSE default

\* d[k] = v on a dict of dicts
Put(d, k, v) == [x \in DOMAIN d \cup {k} |-> IF x = k THEN v ELSE d[x]]

\* d.pop(k, None)
Pop(d, k) == [x \in DOMAIN d \ {k} |-> d[x]]

\* Every event of the job that is the dict progress_store holds, after that dict
\* was updated in place to v
Mutated(evs, v) == [n \in DOMAIN evs |-> IF evs[n].live THEN [evs[n] EXCEPT !.val = v] ELSE evs[n]]

\* ... and after progress_store[job] was bound to another dict
Detached(evs) == [n \in DOMAIN evs |-> [evs[n] EXCEPT !.live = FALSE]]

\* The part of _enqueue_event that runs in the caller: make the queue if there is
\* none, and hand q.put_nowait(payload) to the loop
enqueue_event(j, ev, cs, qs) ==
    /\ job_queues' = IF j \in DOMAIN qs THEN qs ELSE Put(qs, j, << >>)
    /\ calls' = [cs EXCEPT ![j] = Append(@, ev)]

\* progress_store[job] = {...new dict...}; what _enqueue_event gets is `alias`: the
\* same dict (make_hook, the postprocessing update) or an equal one of its own
StoreNew(j, v, alias) ==
    /\ progress_store' = Put(progress_store, j, v)
    /\ bl' = [bl EXCEPT ![j].payload.live = FALSE]
    /\ enqueue_event(j, [val |-> v, live |-> alias],
                     [calls EXCEPT ![j] = Detached(@)],
                     IF j \in DOMAIN job_queues
                     THEN [job_queues EXCEPT ![j] = Detached(@)] ELSE job_queues)

\* cur = progress_store.get(job, {}); cur.update(kw); progress_store[job] = cur;
\* _enqueue_event(job, cur): the dict is updated in place
StoreUpdate(j, kw) ==
    LET had == j \in DOMAIN progress_store
        v == ApplyFields(Get(progress_store, j, NoDict), kw)
    IN /\ progress_store' = Put(progress_store, j, v)
       /\ bl' = [bl EXCEPT ![j].payload =
                   IF had /\ @.live THEN [@ EXCEPT !.val = v] ELSE [@ EXCEPT !.live = FALSE]]
       /\ enqueue_event(j, [val |-> v, live |-> TRUE],
                        [calls EXCEPT ![j] = IF had THEN Mutated(@, v) ELSE Detached(@)],
                        IF j \in DOMAIN job_queues
                        THEN [job_queues EXCEPT ![j] = IF had THEN Mutated(@, v) ELSE Detached(@)]
                        ELSE job_queues)

\* POST /download from client address a with the form field fmt = v (Form(...): the
\* field is required): a fresh uuid, its dict, its queue, its fan-out task and its runner
download(j, v, a) ==
    /\ mpc[j] = "idle"
    /\ j \notin DOMAIN progress_store
    /\ v # NoFmt
    /\ mfmt' = [mfmt EXCEPT ![j] = v]
    /\ admitted' = [admitted EXCEPT ![a] = @ + 1]
    /\ progress_store' = Put(progress_store, j, Dict("queued"))
    /\ job_queues' = IF j \in DOMAIN job_queues THEN job_queues ELSE Put(job_queues, j, << >>)
    /\ broadcaster_tasks' = broadcaster_tasks \cup {j}
    /\ bl' = [bl EXCEPT ![j].pc = "get"]
    /\ mpc' = [mpc EXCEPT ![j] = "start"]
    /\ UNCHANGED <<ws_clients, mthr, calls, wsk, wrecv, svcVars, resp, mdisk>>

\* run_download_async up to its first await: mkdtemp (outside the try), the
\* "starting" dict, its event, and the thread of the first candidate.
\* made = FALSE: mkdtemp raised and the task ended with that exception.
RunStart(j, made) ==
    /\ mpc[j] = "start"
    /\ IF made
       THEN /\ StoreNew(j, Dict("starting"), FALSE)
            /\ mpc' = [mpc EXCEPT ![j] = "thread"]
            /\ mthr' = [mthr EXCEPT ![j] = [IdleThread EXCEPT !.state = "running", !.strat = 1]]
       ELSE /\ mpc' = [mpc EXCEPT ![j] = "crashed"]
            /\ UNCHANGED <<progress_store, job_queues, calls, bl, mthr>>
    /\ mdisk' = [mdisk EXCEPT ![j] = IF made THEN "dir" ELSE @]
    /\ UNCHANGED <<ws_clients, broadcaster_tasks, wsk, wrecv, svcVars, mfmt, admitted, resp>>

\* The hook of make_hook, called by the extractor in the thread
make_hook(j, kind) ==
    /\ mthr[j].state = "running"
    /\ mthr[j].emitted < MaxHooks
    /\ mthr' = [mthr EXCEPT ![j].emitted = @ + 1]
    /\ IF kind = "downloading"
       THEN StoreNew(j, Dict("downloading"), TRUE)
       ELSE StoreUpdate(j, [status |-> "postprocessing"])
    /\ UNCHANGED <<ws_clients, broadcaster_tasks, mpc, wsk, wrecv, svcVars, reqVars>>

\* _try_download raised under the current candidate: `last_err = e; continue`, and
\* the next candidate's thread; after the last one the thread is over with last_err
\* (emitted only counts the hooks of a running thread)
TryFails(j, ig) ==
    /\ mthr[j].state = "running"
    /\ mthr' = [mthr EXCEPT ![j] =
                  [@ EXCEPT !.last_error = StrategyError(mthr[j].strat, ig),
                            !.strat = IF mthr[j].strat < NStrategies THEN @ + 1 ELSE @,
                            !.emitted = IF mthr[j].strat < NStrategies THEN @ ELSE 0,
                            !.state = IF mthr[j].strat < NStrategies THEN "running" ELSE "raised"]]
    /\ UNCHANGED <<progress_store, job_queues, ws_clients, broadcaster_tasks, mpc, calls,
                   bl, wsk, wrecv, svcVars, reqVars>>

\* _try_download returned the path under the current candidate
TrySucceeds(j) ==
    /\ mthr[j].state = "running"
    /\ mthr' = [mthr EXCEPT ![j].state = "returned", ![j].emitted = 0]
    /\ mdisk' = [mdisk EXCEPT ![j] = "file"]
    /\ UNCHANGED <<progress_store, job_queues, ws_clients, broadcaster_tasks, mpc, calls,
                   bl, wsk, wrecv, svcVars, mfmt, admitted, resp>>

\* The loop runs the oldest q.put_nowait(payload) scheduled for the job's queue
\* (a queue _broadcast_loop has dropped meanwhile is garbage)
LoopCall(j) ==
    /\ calls[j] # << >>
    /\ calls' = [calls EXCEPT ![j] = Tail(@)]
    /\ job_queues' = IF j \in DOMAIN job_queues
                     THEN [job_queues EXCEPT ![j] = Append(@, Head(calls[j]))]
                     ELSE job_queues
    /\ UNCHANGED <<progress_store, ws_clients, broadcaster_tasks, mpc, mthr, bl, wsk, wrecv, svcVars, reqVars>>

\* str(e), with the authentication hint appended when the text mentions
\* Instagram, login required or rate-limit
ErrorText(e) == [e EXCEPT !.hint = e.ig]

\* run_download_async after the candidates: `raise last_err` into the except clause
\* when all failed; else `await asyncio.to_thread(normalize_mp4, filepath)`
AfterTry(j) ==
    /\ mpc[j] = "thread"
    /\ mthr[j].state \in {"returned", "raised"}
    /\ calls[j] = << >>
    /\ IF mthr[j].state = "returned"
       THEN /\ mpc' = [mpc EXCEPT ![j] = "normalize"]
            /\ UNCHANGED <<progress_store, job_queues, calls, bl>>
       ELSE /\ StoreNew(j, [Dict("error") EXCEPT !.error = ErrorText(mthr[j].last_error)], FALSE)
            /\ mpc' = [mpc EXCEPT ![j] = "done"]
    /\ UNCHANGED <<ws_clients, broadcaster_tasks, mthr, wsk, wrecv, svcVars, reqVars>>

\* How normalize_mp4 and ensure_quicktime_compatible go: nothing to do (no ffmpeg, not
\* an .mp4, codecs already fine), ffmpeg exits with 0, or subprocess.run(check=True) raises
MainToolOutcomes == {"missing", "ok", "failed"}

\* After normalize_mp4, which ended as `out` says: ffmpeg wrote a file of its own next
\* to path and os.replace put it over path in one step, or the except clause removed
\* it; path holds a whole file either way and the function returns path.  Then a new
\* dict {**progress_store[job], "status": "postprocessing"}, its event (the same
\* dict), and `await asyncio.to_thread(ensure_quicktime_compatible, ...)`
AfterNormalize(j, out) ==
    /\ mpc[j] = "normalize"
    /\ StoreNew(j, ApplyFields(Get(progress_store, j, NoDict), [status |-> "postprocessing"]), TRUE)
    /\ mpc' = [mpc EXCEPT ![j] = "quicktime"]
    /\ mthr' = [mthr EXCEPT ![j].tool = out]
    /\ UNCHANGED <<ws_clients, broadcaster_tasks, wsk, wrecv, svcVars, reqVars>>

\* A failure of ensure_quicktime_compatible reaches the except clause of run_download_async
AfterQuicktime_Fatal(j, out) ==
    /\ mpc[j] = "quicktime"
    /\ IF out = "failed"
       THEN StoreNew(j, [Dict("error") EXCEPT !.error = PostProcessError], FALSE)
       ELSE StoreUpdate(j, [status |-> "finished", filepath |-> "path", filename |-> "name"])
    /\ mpc' = [mpc EXCEPT ![j] = "done"]
    /\ mthr' = [mthr EXCEPT ![j].tool = out]
    /\ UNCHANGED <<ws_clients, broadcaster_tasks, wsk, wrecv, svcVars, reqVars>>

\* After ensure_quicktime_compatible, which ended as `out` says (the same way as
\* normalize_mp4): st = progress_store.get(job, {}); st.update(finished...)
AfterQuicktime(j, out) ==
    /\ mpc[j] = "quicktime"
    /\ StoreUpdate(j, [status |-> "finished", filepath |-> "path", filename |-> "name"])
    /\ mpc' = [mpc EXCEPT ![j] = "done"]
    /\ mthr' = [mthr EXCEPT ![j].tool = out]
    /\ UNCHANGED <<ws_clients, broadcaster_tasks, wsk, wrecv, svcVars, reqVars>>

\* GET /progress/{job_id}: the job's dict, or {"status": "unknown"} for an id the store
\* does not hold
get_progress(j) == Get(progress_store, j, Dict("unknown"))

\* GET /fetch/{job_id} without the test of the status
fetch_file_AnyStatus(j) ==
    LET info == Get(progress_store, j, NoDict)
        exists == mdisk[j] = "file"
    IN /\ resp' = [resp EXCEPT ![j] =
                     [kind |-> IF info.filepath = "none" \/ ~exists THEN "not_found" ELSE "file",
                      at |-> info.status, file |-> exists]]
       /\ UNCHANGED <<progress_store, job_queues, ws_clients, broadcaster_tasks, mpc, mthr,
                      calls, bl, wsk, wrecv, svcVars, mfmt, admitted, mdisk>>

\* GET /fetch/{job_id}: 404 "File is not ready yet" unless the dict says finished, 404
\* "File not found" unless the path is recorded and exists, else the FileResponse.
\* resp[j] keeps the answer, the status it saw and whether the file was there.
fetch_file(j) ==
    LET info == Get(progress_store, j, NoDict)
        exists == mdisk[j] = "file"
    IN /\ resp' = [resp EXCEPT ![j] =
                     [kind |-> IF info.status # "finished" THEN "not_ready"
                               ELSE IF info.filepath = "none" \/ ~exists THEN "not_found"
                               ELSE "file",
                      at |-> info.status, file |-> exists]]
       /\ UNCHANGED <<progress_store, job_queues, ws_clients, broadcaster_tasks, mpc, mthr,
                      calls, bl, wsk, wrecv, svcVars, mfmt, admitted, mdisk>>

\* Something other than the program empties the system's temporary directory
TmpRemoved(j) ==
    /\ mdisk[j] = "file"
    /\ mdisk' = [mdisk EXCEPT ![j] = "none"]
    /\ UNCHANGED <<progress_store, job_queues, ws_clients, broadcaster_tasks, mpc, mthr,
                   calls, bl, wsk, wrecv, svcVars, mfmt, admitted, resp>>

\* _broadcast_loop: q.get() returned an event; copy the job's observer set
BroadcastGet(j) ==
    /\ bl[j].pc = "get"
    /\ j \in DOMAIN job_queues
    /\ job_queues[j] # << >>
    /\ bl' = [bl EXCEPT ![j] = [pc |-> "send", payload |-> Head(job_queues[j]), dead |-> {},
                                todo |-> SortedSeq(Get(ws_clients, j, {}))]]
    /\ job_queues' = [job_queues EXCEPT ![j] = Tail(@)]
    /\ UNCHANGED <<progress_store, ws_clients, broadcaster_tasks, mpc, mthr, calls, wsk, wrecv, svcVars, reqVars>>

\* The first send that raises ends the walk over the copy
BroadcastSend_Aborts(j) ==
    /\ bl[j].pc = "send"
    /\ bl[j].todo # << >>
    /\ LET w == Head(bl[j].todo) IN
       IF wsk[w].state = "open"
       THEN /\ wrecv' = [wrecv EXCEPT ![w] = Append(@, bl[j].payload.val)]
            /\ bl' = [bl EXCEPT ![j].todo = Tail(@)]
       ELSE /\ bl' = [bl EXCEPT ![j].todo = << >>, ![j].dead = @ \cup {w}]
            /\ UNCHANGED wrecv
    /\ UNCHANGED <<progress_store, job_queues, ws_clients, broadcaster_tasks, mpc, mthr,
                   calls, wsk, svcVars, reqVars>>

\* _broadcast_loop: `await ws.send_json(payload)` for the next socket of the copy;
\* a socket whose connection is lost raises and goes to `dead`
BroadcastSend(j) ==
    /\ bl[j].pc = "send"
    /\ bl[j].todo # << >>
    /\ LET w == Head(bl[j].todo) IN
       IF wsk[w].state = "open"
       THEN /\ wrecv' = [wrecv EXCEPT ![w] = Append(@, bl[j].payload.val)]
            /\ bl' = [bl EXCEPT ![j].todo = Tail(@)]
       ELSE /\ bl' = [bl EXCEPT ![j].todo = Tail(@), ![j].dead = @ \cup {w}]
            /\ UNCHANGED wrecv
    /\ UNCHANGED <<progress_store, job_queues, ws_clients, broadcaster_tasks, mpc, mthr,
                   calls, wsk, svcVars, reqVars>>

\* The `finally` of _broadcast_loop
LoopExit(j) ==
    /\ job_queues' = Pop(job_queues, j)
    /\ ws_clients' = Pop(ws_clients, j)
    /\ broadcaster_tasks' = broadcaster_tasks \ {j}
    /\ bl' = [bl EXCEPT ![j] = [IdleLoop EXCEPT !.pc = "exited"]]

\* _broadcast_loop after the sends: discard the dead sockets, then leave the loop on
\* an event whose status is finished or error
BroadcastEnd(j) ==
    /\ bl[j].pc = "send"
    /\ bl[j].todo = << >>
    /\ IF bl[j].payload.val.status \in {"finished", "error"}
       THEN LoopExit(j)
       ELSE /\ ws_clients' = IF j \in DOMAIN ws_clients
                             THEN [ws_clients EXCEPT ![j] = @ \ bl[j].dead] ELSE ws_clients
            /\ bl' = [bl EXCEPT ![j] = [IdleLoop EXCEPT !.pc = "get"]]
            /\ UNCHANGED <<job_queues, broadcaster_tasks>>
    /\ UNCHANGED <<progress_store, mpc, mthr, calls, wsk, wrecv, svcVars, reqVars>>

\* _broadcast_loop: q.get() timed out with nobody listening and the job not active
BroadcastTimeout(j) ==
    /\ bl[j].pc = "get"
    /\ Get(job_queues, j, << >>) = << >>
    /\ Get(ws_clients, j, {}) = {}
    /\ Get(progress_store, j, NoDict).status \in {"none", "finished", "error"}
    /\ LoopExit(j)
    /\ UNCHANGED <<progress_store, mpc, mthr, calls, wsk, wrecv, svcVars, reqVars>>

\* The handler registers the socket and sends no snapshot
ws_progress_NoSnapshot(w, j) ==
    /\ wsk[w].state = "fresh"
    /\ ws_clients' = Put(ws_clients, j, Get(ws_clients, j, {}) \cup {w})
    /\ IF j \in DOMAIN progress_store
       THEN wsk' = [wsk EXCEPT ![w] = [state |-> "open", job |-> j,
                                       at |-> progress_store[j].status,
                                       cur |-> progress_store[j]]]
       ELSE wsk' = [wsk EXCEPT ![w] = [FreshSocket EXCEPT !.state = "open", !.job = j]]
    /\ UNCHANGED <<progress_store, job_queues, broadcaster_tasks, mpc, mthr, calls, bl,
                   wrecv, svcVars, reqVars>>

\* ws_progress after accept(): register the socket, then send the job's current dict if any
ws_progress(w, j) ==
    /\ wsk[w].state = "fresh"
    /\ ws_clients' = Put(ws_clients, j, Get(ws_clients, j, {}) \cup {w})
    /\ IF j \in DOMAIN progress_store
       THEN /\ wrecv' = [wrecv EXCEPT ![w] = Append(@, progress_store[j])]
            /\ wsk' = [wsk EXCEPT ![w] = [state |-> "open", job |-> j,
                                          at |-> progress_store[j].status,
                                          cur |-> progress_store[j]]]
       ELSE /\ wsk' = [wsk EXCEPT ![w] = [FreshSocket EXCEPT !.state = "open", !.job = j]]
            /\ UNCHANGED wrecv
    /\ UNCHANGED <<progress_store, job_queues, broadcaster_tasks, mpc, mthr, calls, bl, svcVars, reqVars>>

\* The client goes away
Disconnect(w) ==
    /\ wsk[w].state = "open"
    /\ wsk' = [wsk EXCEPT ![w].state = "lost"]
    /\ UNCHANGED <<progress_store, job_queues, ws_clients, broadcaster_tasks, mpc, mthr,
                   calls, bl, wrecv, svcVars, reqVars>>

\* ws_progress: receive_text() raised WebSocketDisconnect; the `finally` discards the socket
ws_finally(w) ==
    /\ wsk[w].state = "lost"
    /\ wsk' = [wsk EXCEPT ![w].state = "closed"]
    /\ ws_clients' = IF wsk[w].job \in DOMAIN ws_clients
                     THEN [ws_clients EXCEPT ![wsk[w].job] = @ \ {w}] ELSE ws_clients
    /\ UNCHANGED <<progress_store, job_queues, broadcaster_tasks, mpc, mthr, calls, bl, wrecv, svcVars, reqVars>>

\* The steps of one job of app/main.py, its post-processing ending as one of outs
MainSteps(j, outs) ==
    \/ \E v \in {GoodFmt}, a \in {1} : download(j, v, a)
    \/ \E made \in BOOLEAN : RunStart(j, made)
    \/ \E kind \in {"downloading", "finished"} : make_hook(j, kind)
    \/ \E ig \in BOOLEAN : TryFails(j, ig)
    \/ TrySucceeds(j)
    \/ LoopCall(j)
    \/ AfterTry(j)
    \/ \E out \in outs : AfterNormalize(j, out)
    \/ \E out \in outs : AfterQuicktime(j, out)

MainRunnerStep(j) == MainSteps(j, MainToolOutcomes)

FanOutStep(j) ==
    \/ BroadcastGet(j)
    \/ BroadcastEnd(j)
    \/ BroadcastTimeout(j)

SocketStep(W, J) ==
    \/ \E w \in W, j \in J : ws_progress(w, j)
    \/ \E w \in W : Disconnect(w) \/ ws_finally(w)

\* app/main.py without observers, every run of ffmpeg ending with exit status 0
NextMain ==
    \E j \in JobIds : MainSteps(j, {"ok"}) \/ FanOutStep(j)

\* app/main.py with one job and one observer
NextMainWs ==
    \/ \E j \in {1} : MainRunnerStep(j) \/ FanOutStep(j) \/ BroadcastSend(j)
    \/ SocketStep({1}, {1})

\* The requests of one minute: POST /download from several addresses, and the start
\* of each runner
NextSubmit ==
    \E j \in JobIds :
        \/ \E v \in Formats \ {NoFmt}, a \in Clients : download(j, v, a)
        \/ \E made \in BOOLEAN : RunStart(j, made)

\* One job of app/main.py and the requests for its file
NextFetch ==
    \E j \in {1} : MainRunnerStep(j) \/ fetch_file(j) \/ TmpRemoved(j)

\* Nothing has happened yet in the service stack / in app/main.py
SvcIdle == jobs = << >> /\ \A w \in Observers : conn[w] = "fresh"
MainIdle == progress_store = << >> /\ \A w \in Observers : wsk[w].state = "fresh"

\* One deployment runs one of the two stacks: a job with several observers, its
\* extractor reporting no progress and its tools ending with exit status 0
NextFan ==
    \/ /\ MainIdle
       /\ \/ \E j \in {1} : RunnerStep(j) \/ StrategySucceeds(j) \/ ProcessStep(j)
          \/ ObserverStep({1})
    \/ /\ SvcIdle
       /\ \/ \E j \in {1} :
                \/ \E v \in {GoodFmt}, a \in {1} : download(j, v, a)
                \/ RunStart(j, TRUE)
                \/ TrySucceeds(j)
                \/ LoopCall(j)
                \/ AfterTry(j)
                \/ AfterNormalize(j, "ok")
                \/ AfterQuicktime(j, "ok")
                \/ FanOutStep(j)
                \/ BroadcastSend(j)
          \/ SocketStep({1, 2}, {1})

\* The steps of one job's task and threads in the service stack (an extractor that
\* reports no progress)
LiveStep(j) ==
    RunnerStep(j) \/ StrategyFails(j) \/ StrategySucceeds(j) \/ ProcessStep(j)

\* The sends suspended on a socket whose buffer has drained or whose connection is lost
ResumeStep == \E b \in bcasts : ResumeBroadcast(b)

\* The service stack with two jobs and one observer of job 1
NextLive ==
    \/ \E j \in {1, 2} : LiveStep(j)
    \/ AddWebsocket(1, 1)
    \/ PeerStep(1)
    \/ ResumeStep

\* Both stacks side by side, one job each, no observers and no fan-out task
NextBoth ==
    \E j \in {1} : RunnerStep(j) \/ ThreadStep(j) \/ MainRunnerStep(j)

vars == <<svcVars, mainVars>>

Init == InitSvc /\ InitMain

\* The service stack, no observers
Next == NextSvc

Spec == Init /\ [][Next]_vars

SpecWs == Init /\ [][NextWs]_vars

SpecCancel == Init /\ [][NextCancel]_vars

SpecMain == Init /\ [][NextMain]_vars

SpecMainWs == Init /\ [][NextMainWs]_vars

SpecBoth == Init /\ [][NextBoth]_vars

\* The event loop runs every task that stays ready and the executor every thread; the
\* extractor and ffmpeg return or raise; a send is resumed whenever its socket drains
\* or its connection is lost.  Nothing is assumed of the peers.
LiveFair ==
    /\ \A j \in {1, 2} : WF_vars(LiveStep(j))
    /\ SF_vars(ResumeStep)

SpecLive == Init /\ [][NextLive]_vars /\ LiveFair
SpecEvict == Init /\ [][NextEvict]_vars
SpecReap == Init /\ [][NextReap]_vars

SpecSubmit == Init /\ [][NextSubmit]_vars

SpecFan == Init /\ [][NextFan]_vars


\* The event loop runs every task that is ready, and the client keeps asking
SpecFetch == Init /\ [][NextFetch]_vars /\ WF_vars(NextFetch)

(***************************************************************************)
(* Properties.                                                              *)
(***************************************************************************)
\* Where the task of VideoDownloader.download holds a permit
Holding == {"started", "thread", "post", "compat", "finishing", "failing"}

\* Where the task of run_download_async is past its start and not yet over
Running == {"thread", "normalize", "quicktime"}

\* C1 -- terminal states are absorbing: once a job's status is finished, error or
\* cancelled, no later step (runner update, update scheduled by a hook of the worker
\* thread, post-processing update) changes it.
C1_TerminalAbsorbing ==
    [][\A j \in DOMAIN jobs :
          jobs[j].status \in Terminal
              => j \in DOMAIN jobs' /\ jobs'[j].status = jobs[j].status]_vars

\* A job ended in error after updates of its hooks, while another job is downloading
C1_Witness ==
    \E j \in DOMAIN jobs, k \in DOMAIN jobs :
        /\ jobs[j].status = "error" /\ pc[j] = "done" /\ nseq[j] >= 3
        /\ jobs[k].status = "downloading"

\* C2 -- every change of a job's status is one of the edges queued->starting,
\* starting->downloading, non-terminal->postprocessing, postprocessing->finished,
\* non-terminal->error, non-terminal->cancelled (downloading->downloading changes
\* nothing); in particular never postprocessing->downloading, whatever the hooks do.
C2_OnlyEdges ==
    [][\A j \in DOMAIN jobs :
          LET a == jobs[j].status
              b == jobs'[j].status
          IN a # b =>
               \/ a = "queued" /\ b = "starting"
               \/ a = "starting" /\ b = "downloading"
               \/ a \notin Terminal /\ b \in {"postprocessing", "error", "cancelled"}
               \/ a = "postprocessing" /\ b = "finished"]_vars

\* C3 -- for every job, at most one of the result (filepath / filename) and the
\* error message is populated.
C3_ResultOrError ==
    \A j \in DOMAIN jobs :
        ~ /\ (jobs[j].filepath # "none" \/ jobs[j].filename # "none")
          /\ jobs[j].error # NoError

\* One job failed on the size check, with a file on disk and no result recorded, and
\* another has its result
C3_Witness ==
    \E j \in DOMAIN jobs, k \in DOMAIN jobs :
        /\ jobs[j].error = FileTooLarge /\ jobs[j].filepath = "none"
        /\ jobs[k].filepath = "path" /\ jobs[k].error = NoError

\* C4 -- with the limiter at capacity max_concurrent_downloads, at most that many
\* runners are active at any time, in VideoDownloader.download and in the runner
\* that POST /download of app/main.py starts.
C4_AtMostCapacity ==
    /\ Cardinality({j \in JobIds : pc[j] \in Holding}) <= max_concurrent_downloads
    /\ Cardinality({j \in JobIds : mpc[j] \in Running}) <= max_concurrent_downloads

\* C5 -- a runner holds exactly one permit from acquisition until it exits and gives
\* it back on every exit path (success, failure, cancellation): the permits left and
\* the runners holding one always add up to the capacity, so with no runner active
\* every permit is available.
C5_PermitsBalanced ==
    /\ semaphore + Cardinality({j \in JobIds : pc[j] \in Holding}) = max_concurrent_downloads
    /\ (\A j \in JobIds : pc[j] \notin Holding) => semaphore = max_concurrent_downloads

\* A runner was cancelled while its thread still runs, another left by the failure
\* path, and every permit is back
C5_Witness ==
    \E j \in JobIds, k \in JobIds :
        /\ pc[j] = "cancelled" /\ thr[j].state = "running"
        /\ pc[k] = "done" /\ jobs[k].status = "error"
        /\ semaphore = max_concurrent_downloads

\* C6 -- with capacity 1, a job submitted while another runs stays queued, its
\* extractor not invoked, until the other has reached a terminal state; two runners
\* are never active together.
C6_SecondWaits ==
    max_concurrent_downloads = 1 =>
        /\ Cardinality({j \in JobIds : pc[j] \in Holding}) <= 1
        /\ \A j \in DOMAIN jobs, k \in DOMAIN jobs :
              (j # k /\ jobs[j].status # "queued" /\ jobs[k].status # "queued")
                  => (jobs[j].status \in Terminal \/ jobs[k].status \in Terminal)
        /\ \A k \in DOMAIN jobs :
              jobs[k].status = "queued" => thr[k].state = "idle" /\ hookq[k] = << >>

\* Both jobs are submitted; one is downloading and the other waits for the permit
C6_Witness ==
    \E j \in DOMAIN jobs, k \in DOMAIN jobs :
        /\ j # k
        /\ jobs[j].status = "downloading" /\ pc[j] = "thread"
        /\ pc[k] = "acquire" /\ jobs[k].status = "queued"

C8_OneSnapshot ==
    \A w \in Observers :
        wsk[w].at = "finished" => Len(wrecv[w]) = 1 /\ wrecv[w][1].status = "finished"

\* C9 -- the first message an observer receives is the snapshot the job had when the
\* observer attached; no event of the fan-out task reaches it ahead of that snapshot.
C9_SnapshotFirst ==
    \A w \in Observers :
        (wsk[w].state # "fresh" /\ wsk[w].at # "none")
            => wrecv[w] # << >> /\ Head(wrecv[w]) = wsk[w].cur

\* An observer attached to a running job got the snapshot and then a live event
C9_Witness ==
    \E w \in Observers :
        /\ wsk[w].at \in {"starting", "downloading"}
        /\ Len(wrecv[w]) >= 2
        /\ wrecv[w][1] = wsk[w].cur
        /\ wrecv[w][2] # wrecv[w][1]

\* C10 -- the snapshots of a job reach an observer in the order update_job produced
\* them (an observer is attached to one job).
C10_InOrder ==
    \A w \in Observers :
        \A m \in DOMAIN recv[w], n \in DOMAIN recv[w] :
            m < n => recv[w][m].seq < recv[w][n].seq

\* C11 -- when a cycle of the reaper is over, every job it found older than the TTL
\* is absent from the store and its output file is no longer on disk.
C11_ReapedGone ==
    [][\A j \in reaped' \ reaped :
          j \notin DOMAIN jobs' /\ disk'[j] \in {"none", "dir"}]_vars

\* C12 -- a submit whose format validate_format refuses creates no job: every job in
\* the store was submitted with a format that passes validate_format.
C12_RejectedBeforeJob ==
    \A j \in DOMAIN progress_store : validate_format(mfmt[j])

\* C13 -- once fetch_file has answered with the file of a finished job, the job
\* eventually leaves the store and get_progress answers as for an unknown id.
C13_RemovedAfterFetch ==
    \A j \in JobIds :
        (resp[j].kind = "file") ~>
            (j \notin DOMAIN progress_store /\ get_progress(j).status = "unknown")

\* C14 -- whenever fetch_file answers: the job's dict is left as it was; a job that is
\* not finished gets the not-ready answer; the file is sent only for a finished job
\* whose file exists.
C14_FetchNotReady ==
    [][\A j \in JobIds :
          resp'[j] # resp[j] =>
              /\ progress_store' = progress_store
              /\ (Get(progress_store, j, NoDict).status # "finished" =>
                      resp'[j].kind = "not_ready")
              /\ (resp'[j].kind = "file" =>
                      Get(progress_store, j, NoDict).status = "finished" /\ mdisk[j] = "file")]_vars

\* C14: the file is on disk, the dict still says postprocessing, and the answer was
\* "not ready"
C14_Witness ==
    \E j \in JobIds : resp[j] = [kind |-> "not_ready", at |-> "postprocessing", file |-> TRUE]

\* C15 -- a job whose background task was cancelled has a record in a terminal state.
C15_CancelledTerminal ==
    \A j \in JobIds : pc[j] = "cancelled" => jobs[j].status \in Terminal

\* C16 -- a background job that is over, in either stack, left its record finished or
\* in error with the error recorded; none ended by an exception of its own.
C16_FailuresCaptured ==
    /\ \A j \in DOMAIN jobs :
          pc[j] = "done" =>
              /\ jobs[j].status \in {"finished", "error"}
              /\ jobs[j].status = "error" => jobs[j].error # NoError
    /\ \A j \in DOMAIN progress_store :
          mpc[j] \in {"done", "crashed"} =>
              /\ mpc[j] = "done"
              /\ progress_store[j].status \in {"finished", "error"}
              /\ progress_store[j].status = "error" => progress_store[j].error # NoError

\* C17 -- a job whose downloaded file was found larger than max_file_size is in error,
\* never finished, and neither its file nor its scratch directory is left on disk.
C17_OversizeRemoved ==
    \A j \in DOMAIN jobs :
        jobs[j].error = FileTooLarge =>
            /\ jobs[j].status = "error"
            /\ jobs[j].filepath = "none"
            /\ disk[j] = "none"

\* C17: the transfer returned a file, the size check refused it, the runner is on
\* its way out
C17_Witness ==
    \E j \in DOMAIN jobs :
        /\ thr[j].state = "returned" /\ pc[j] = "failing"
        /\ jobs[j].error = FileTooLarge /\ disk[j] = "none"

C20_FileAlwaysThere ==
    /\ \A j \in JobIds : pc[j] \in {"post", "compat", "finishing"} => disk[j] \in {"file", "both"}
    /\ \A j \in JobIds : mpc[j] \in {"normalize", "quicktime"} => mdisk[j] = "file"

\* C19 -- no client address has more submits admitted within one minute than
\* rate_limit_per_minute.
C19_AtMostK ==
    \A a \in Clients : admitted[a] <= rate_limit_per_minute

\* C21 -- once post-processing has returned, no output file of ffmpeg's own is left
\* next to the job's file.
C21_NoTempLeft ==
    /\ \A j \in JobIds :
          ((pc[j] = "compat" /\ thr[j].proc = "over") \/ pc[j] = "finishing") =>
              disk[j] \notin {"both", "temp"}
    /\ \A j \in JobIds : mpc[j] \in {"quicktime", "done"} => mdisk[j] \notin {"both", "temp"}

\* C22 -- the fan-out task of a job ends only after an event with a terminal status
\* or after a timeout with the job finished, in error or unknown, and in both cases
\* only when no observer is left registered for the job: its end drops no observer.
C22_ExitsWithNoObserver ==
    [][\A j \in JobIds :
          (bl[j].pc # "exited" /\ bl'[j].pc = "exited") =>
              /\ \/ bl[j].pc = "send" /\ bl[j].payload.val.status \in {"finished", "error"}
                 \/ bl[j].pc = "get" /\
                       Get(progress_store, j, NoDict).status \in {"none", "finished", "error"}
              /\ Get(ws_clients, j, {}) \ bl[j].dead = {}]_vars

\* C23 -- an event goes to every observer registered when its delivery starts: an
\* observer whose send fails is removed from the job's observer set, and every other
\* one still gets the event.  In the service stack: an update with no stalled peer
\* reaches every open socket of the job and removes every closed one, and a broadcast
\* that ends after a suspension has done so for the rest of its copy.  In app/main.py:
\* the fan-out task copies the whole set, handles the sockets one by one whatever
\* the one before did, and ends the event only when none is left.
C23_DeliveredToAll ==
    [][/\ \A j \in DOMAIN jobs :
             (nseq'[j] = nseq[j] + 1 /\ \A w \in Get(websockets, j, {}) : conn[w] # "stalled") =>
                 \A w \in Get(websockets, j, {}) :
                     IF conn[w] = "open"
                     THEN /\ Len(recv'[w]) = Len(recv[w]) + 1
                          /\ recv'[w][Len(recv'[w])].seq = nseq'[j]
                     ELSE /\ w \notin Get(websockets', j, {})
                          /\ recv'[w] = recv[w]
       /\ \A b \in bcasts :
             (\A c \in bcasts' : c.job # b.job \/ c.snap.seq # b.snap.seq) =>
                 /\ b.dead \cap Get(websockets', b.job, {}) = {}
                 /\ \A n \in 2..Len(b.todo) :
                       IF conn[b.todo[n]] = "open"
                       THEN /\ recv'[b.todo[n]] # << >>
                            /\ recv'[b.todo[n]][Len(recv'[b.todo[n]])].seq = b.snap.seq
                       ELSE b.todo[n] \notin Get(websockets', b.job, {})
       /\ \A j \in JobIds :
             /\ (bl[j].pc = "get" /\ bl'[j].pc = "send") =>
                    {bl'[j].todo[n] : n \in 1..Len(bl'[j].todo)} = Get(ws_clients, j, {})
             /\ (bl[j].pc = "send" /\ bl'[j].pc = "send" /\ bl'[j].todo # bl[j].todo) =>
                    /\ bl'[j].todo = Tail(bl[j].todo)
                    /\ IF wsk[Head(bl[j].todo)].state = "open"
                       THEN wrecv'[Head(bl[j].todo)] =
                                Append(wrecv[Head(bl[j].todo)], bl[j].payload.val)
                       ELSE Head(bl[j].todo) \in bl'[j].dead
             /\ (bl[j].pc = "send" /\ bl'[j].pc # "send") =>
                    /\ bl[j].todo = << >>
                    /\ bl[j].dead \cap Get(ws_clients', j, {}) = {}]_vars

\* C23: in app/main.py the send to observer 1 failed, observer 2 got the event after
\* it, and the walk over the copy is over
C23_Witness ==
    /\ bl[1].pc = "send" /\ bl[1].todo = << >> /\ bl[1].dead = {1}
    /\ wsk[2].state = "open" /\ 2 \in Get(ws_clients, 1, {})
    /\ wrecv[2] # << >> /\ wrecv[2][Len(wrecv[2])] = bl[1].payload.val
    /\ Len(wrecv[2]) > Len(wrecv[1])

\* C24 -- an event keeps the field values it was enqueued with: no step changes an
\* event that waits in the job's queue or in a put_nowait call not yet run.
C24_EventsImmutable ==
    [][\A j \in JobIds :
          /\ (j \in DOMAIN job_queues /\ j \in DOMAIN job_queues') =>
                LET q == job_queues[j]
                    r == job_queues'[j]
                IN \/ Len(r) >= Len(q) /\ \A n \in 1..Len(q) : r[n].val = q[n].val
                   \/ Len(r) = Len(q) - 1 /\ \A n \in 1..Len(r) : r[n].val = q[n + 1].val
          /\ LET c == calls[j]
                 d == calls'[j]
             IN \/ Len(d) >= Len(c) /\ \A n \in 1..Len(c) : d[n].val = c[n].val
                \/ Len(d) = Len(c) - 1 /\ \A n \in 1..Len(d) : d[n].val = c[n + 1].val]_vars

\* C25 -- an update for an id the store no longer holds does nothing: a job the reaper
\* removed never comes back, and a step of its runner, its thread or its hooks
\* changes no record, produces no snapshot and starts no broadcast.
C25_LateUpdateNoOp ==
    [][\A j \in reaped :
          /\ j \notin DOMAIN jobs'
          /\ (pc'[j] # pc[j] \/ thr'[j] # thr[j] \/ hookq'[j] # hookq[j]) =>
                 jobs' = jobs /\ nseq' = nseq /\ bcasts' = bcasts /\ recv' = recv]_vars

\* C25: the job was removed while its runner was at work (its file is still there),
\* and the runner has since made its `finished` update
C25_Witness ==
    \E j \in reaped : pc[j] = "finishing" /\ disk[j] = "file" /\ j \notin DOMAIN jobs
\* C26: a deletion that fails while one expired job is evicted does not end the cycle
\* of cleanup_old_jobs: when the cycle is over, every job of its list has lost its
\* record and its queue.
C26_CycleGoesOn ==
    [][\A j \in reaped' \ reaped : j \notin DOMAIN jobs' /\ j \notin queues']_vars

\* A cycle over two expired jobs is over; the file of the first could not be deleted
\* and is still there, and both records are gone
C26_Witness ==
    /\ cycle.phase = "idle"
    /\ cycle.all = {1, 2}
    /\ 1 \in cycle.failed
    /\ disk[1] \in {"file", "both"}
    /\ reaped = {1, 2}
    /\ jobs = << >>

\* The step in which remove_job returns for job j
Evicted(j) ==
    /\ cycle.phase # "idle"
    /\ Head(cycle.todo) = j
    /\ cycle'.phase = "idle" \/ cycle'.todo = Tail(cycle.todo)

\* C27: when remove_job returns for a job, the job has no record, no queue and no
\* observer set, and every observer that was registered for it is closed.
C27_EvictedWithObservers ==
    [][\A j \in JobIds :
          Evicted(j) =>
              /\ j \notin DOMAIN jobs'
              /\ j \notin queues'
              /\ j \notin DOMAIN websockets'
              /\ \A w \in (IF j \in DOMAIN websockets THEN websockets[j] ELSE {}) :
                     conn'[w] = "closed"]_vars

\* One step of a download thread, from t to u, keeps the order of the strategies: the
\* first attempt is strategy 1, strategy i+1 is attempted only when strategy i has
\* just failed, nothing is attempted after a success, and the thread raises only
\* when the last strategy has failed (u is idle when the runner is over and has
\* dropped the thread)
InOrder(t, u) ==
    u.state # "idle" =>
    /\ u.strat # t.strat =>
           \/ t.strat = 0 /\ u.strat = 1 /\ u.state = "running"
           \/ /\ t.state = "running" /\ u.state = "running"
              /\ u.strat = t.strat + 1
              /\ u.last_error.kind = "strategy" /\ u.last_error.i = t.strat
    /\ t.state = "returned" => u.state = "returned" /\ u.strat = t.strat
    /\ (u.state = "raised" /\ t.state # "raised") =>
           /\ t.state = "running" /\ t.strat = NStrategies
           /\ u.last_error.kind = "strategy" /\ u.last_error.i = NStrategies

\* C28 -- in both stacks the strategies are attempted in list order, each only after
\* the previous one failed, none after a success; and a job is in error with the
\* message of a strategy only when the last strategy of the list has failed.
C28_StrategiesInOrder ==
    [][\A j \in JobIds :
          /\ InOrder(thr[j], thr'[j])
          /\ InOrder(mthr[j], mthr'[j])
          /\ (j \in DOMAIN jobs' /\ pc'[j] = "failing" /\ jobs'[j].status = "error"
                 /\ jobs'[j].error \notin {MkdtempError, FileTooLarge})
                => thr'[j].state = "raised" /\ thr'[j].strat = NStrategies
          /\ (j \in DOMAIN progress_store' /\ progress_store'[j].status = "error")
                => mthr'[j].state = "raised" /\ mthr'[j].strat = NStrategies]_vars

\* In VideoDownloader every strategy failed and the job is in error; in
\* run_download_async the first strategy succeeded and the job finished with it
C28_Witness ==
    /\ \E j \in DOMAIN jobs :
          /\ pc[j] = "failing" /\ jobs[j].status = "error"
          /\ jobs[j].error = StrategyError(NStrategies, FALSE)
          /\ thr[j].state = "raised" /\ thr[j].strat = NStrategies
    /\ \E j \in DOMAIN progress_store :
          /\ progress_store[j].status = "finished"
          /\ mthr[j].state = "returned" /\ mthr[j].strat = 1
          /\ mthr[j].last_error = NoError

\* C28 as stated -- a job is in error only when every strategy has been attempted and
\* has failed
C28_AsStated ==
    /\ \A j \in DOMAIN jobs :
          (pc[j] = "failing" /\ jobs[j].status = "error")
              => thr[j].state = "raised" /\ thr[j].strat = NStrategies
    /\ \A j \in DOMAIN progress_store :
          progress_store[j].status = "error"
              => mthr[j].state = "raised" /\ mthr[j].strat = NStrategies

\* A record or dict d has its result only with the status finished, and then whole
ResultOnlyFinished(d) ==
    (d.filepath # "none" \/ d.filename # "none")
        => d.status = "finished" /\ d.filepath # "none" /\ d.filename # "none"

\* C29 -- in both stacks a job has a file path or file name only with the status
\* finished, and a finished job keeps its status, file path and file name as long as
\* it is in the store.
C29_ResultWithFinished ==
    /\ [](/\ \A j \in DOMAIN jobs : ResultOnlyFinished(jobs[j])
          /\ \A j \in DOMAIN progress_store : ResultOnlyFinished(progress_store[j]))
    /\ [][/\ \A j \in DOMAIN jobs \cap DOMAIN jobs' :
                jobs[j].status = "finished" =>
                    /\ jobs'[j].status = "finished"
                    /\ jobs'[j].filepath = jobs[j].filepath
                    /\ jobs'[j].filename = jobs[j].filename
          /\ \A j \in DOMAIN progress_store \cap DOMAIN progress_store' :
                progress_store[j].status = "finished" =>
                    /\ progress_store'[j].status = "finished"
                    /\ progress_store'[j].filepath = progress_store[j].filepath
                    /\ progress_store'[j].filename = progress_store[j].filename]_vars

\* Both runners are over and both jobs are finished with their result, after progress
\* reports of the extractor
C29_Witness ==
    /\ pc[1] = "done" /\ mpc[1] = "done"
    /\ jobs[1].status = "finished" /\ jobs[1].filepath = "path" /\ jobs[1].filename = "name"
    /\ progress_store[1].status = "finished"
    /\ progress_store[1].filepath = "path" /\ progress_store[1].filename = "name"
    /\ nseq[1] > 3

\* C30 -- with fair scheduling, calls of the extractor and of ffmpeg that return or
\* raise, and no cancellation, every job in the store reaches finished or error.
C30_EveryJobEnds ==
    \A j \in {1, 2} :
        (j \in DOMAIN jobs) ~> (IF j \in DOMAIN jobs THEN jobs[j].status \in Terminal ELSE TRUE)

\* C31 -- once the runner of a job is over and the job is in error or no longer in
\* the store, nothing of the job's scratch directory is left on disk, in either stack.
C31_NoOrphanDir ==
    /\ \A j \in JobIds :
          (pc[j] = "done" /\ (IF j \in DOMAIN jobs THEN jobs[j].status = "error" ELSE TRUE))
              => disk[j] = "none"
    /\ \A j \in DOMAIN progress_store :
          (mpc[j] = "done" /\ progress_store[j].status = "error") => mdisk[j] = "none"

\* The handler of every socket that was opened for job j has returned
AllGone(j) == \A w \in Observers : wsk[w].job = j => wsk[w].state = "closed"

\* C32 -- once a job of app/main.py is finished, in error or unknown, its fan-out task
\* has exited and the handler of each of its observers has returned, neither
\* ws_clients nor job_queues has an entry for the job.
C32_NoLeak ==
    \A j \in JobIds :
        (/\ Get(progress_store, j, NoDict).status \in {"none", "finished", "error"}
         /\ mpc[j] \in {"idle", "done"}
         /\ bl[j].pc = "exited"
         /\ AllGone(j))
            => j \notin DOMAIN ws_clients /\ j \notin DOMAIN job_queues

====
